---- MODULE Spec2Model ----
(***************************************************************************)
(* Model of the chat relay server, backend/src/index.ts: the room          *)
(* registry (rooms), the connection-to-room bindings (userSockets), the    *)
(* per-connection message and close handlers, the heartbeat timers and the *)
(* periodic room cleanup.  Node runs every handler and timer callback to   *)
(* completion on one thread, so each of them is one atomic action.         *)
(*                                                                         *)
(* Time is the server clock in milliseconds since start.  It advances from *)
(* one timer deadline to the next; a timer that is due fires before the    *)
(* clock moves on, and client events happen at the instants in between.    *)
(*                                                                         *)
(* A string (room code, message text) is the sequence of its characters,   *)
(* so that length and trim are computed as the code computes them.         *)
(* A parsed JSON object is a record holding exactly the keys it carries.   *)
(***************************************************************************)
EXTENDS Integers, Sequences, FiniteSets, TLC

VARIABLES
    now,          \* server clock, ms since start
    readyState,   \* socket -> "CONNECTING" | "OPEN" | "CLOSING" | "CLOSED"
    rooms,        \* Map roomCode -> [users, messages, createdAt]
    userSockets,  \* Map socket -> [roomCode, userId]
    uuids,        \* number of randomUUID() values drawn so far
    pingInterval, \* socket -> {next deadline of its setInterval} or {}
    pingTimeout,  \* socket -> {deadline of its setTimeout} or {}
    cleanupAt,    \* next deadline of setInterval(cleanupOldRooms, ...)
    probes,       \* socket -> [firstAt: {time of its first ping}, pending: a ping
                  \*            is unanswered, lastPongAt: {time of its last pong}],
                  \*            kept until the socket's close listener has run
    listening,    \* the server still accepts connections (no SIGTERM yet)
    closeRuns,    \* socket -> times its "close" listener has run
    leaves,       \* socket -> times its close listener removed a member
    sent,         \* socket -> envelopes written to it by the last step
    inbox         \* socket -> ids of all `message` envelopes written to it,
                  \*            in the order of the writes

vars == <<now, readyState, rooms, userSockets, uuids, pingInterval, pingTimeout,
          cleanupAt, probes, listening, closeRuns, leaves, sent, inbox>>

----------------------------------------------------------------------------
(* Program constants *)

MAX_MESSAGE_LENGTH == 1000
MAX_ROOM_HISTORY == 200
ROOM_CLEANUP_INTERVAL == 3600000
PING_INTERVAL == 30000

(* Bounds of the model *)

\* randomUUID() draws allowed in the general specification
MaxUuid == 2
\* randomUUID() draws allowed in the specification of repeated requests
MaxUuidRejoin == 3
\* randomUUID() draws allowed in the history specification (one member id,
\* then more posts than MAX_ROOM_HISTORY)
MaxUuidHistory == 203
\* randomUUID() draws allowed in the specification of all frames
MaxUuidEdge == 2
\* randomUUID() draws allowed in the heartbeat specification
MaxUuidHeartbeat == 2
\* randomUUID() draws allowed in the janitor specification
MaxUuidJanitor == 2
\* clock horizon of the heartbeat specification: three heartbeat periods
MaxNow == 90000
\* clock horizon of the janitor specification: past the second sweep
MaxNowJanitor == 7200000
\* runs of one socket's close listener (the second is a duplicate event)
MaxCloseRuns == 2
\* randomUUID() draws allowed in the registry specification
MaxUuidRegistry == 3
\* randomUUID() draws allowed in the specification of message order: two
\* member ids and two posts
MaxUuidOrder == 4

Sockets == {"s1", "s2", "s3"}
NoSocket == "none"

----------------------------------------------------------------------------
(* Strings *)

Str(n, c) == [i \in 1..n |-> c]

IsSpace(c) == c = " "

RECURSIVE TrimStart(_)
TrimStart(s) ==
    IF s # <<>> /\ IsSpace(Head(s)) THEN TrimStart(Tail(s)) ELSE s

RECURSIVE TrimEnd(_)
TrimEnd(s) ==
    IF s # <<>> /\ IsSpace(s[Len(s)]) THEN TrimEnd(SubSeq(s, 1, Len(s) - 1)) ELSE s

\* String.prototype.trim
Trim(s) == TrimEnd(TrimStart(s))

\* randomUUID(): the n-th value drawn; all values are distinct
randomUUID(n) == "uuid-" \o ToString(n)

----------------------------------------------------------------------------
(* Maps *)

EmptyMap == << >>

MapSet(m, k, v) == [x \in (DOMAIN m) \cup {k} |-> IF x = k THEN v ELSE m[x]]

MapDelete(m, k) == [x \in (DOMAIN m) \ {k} |-> m[x]]

Size(m) == Cardinality(DOMAIN m)

SetMin(S) == CHOOSE x \in S : \A y \in S : x <= y

----------------------------------------------------------------------------
(* Inbound frames.  A frame either fails JSON.parse or parses to an object  *)
(* `json`.  The keys type and roomCode, when present, hold strings; the    *)
(* key message, when present, holds a JSON value tagged with its typeof.   *)

JString(s) == [typeof |-> "string", value |-> s]

JNumber(n) == [typeof |-> "number", value |-> n]

Garbage == [text |-> "{not json"]

Json(data) == [json |-> data]

CodeA == <<"A">>

CodeB == <<"B">>

Hi == <<"h", "i">>

Texts ==
    { JString(<<>>), JString(Hi),
      JString(Str(MAX_MESSAGE_LENGTH, "x")),
      JString(Str(MAX_MESSAGE_LENGTH + 1, "x")),
      JNumber(7) }

Frames ==
    { Garbage }
    \cup { Json([type |-> t, roomCode |-> c]) :
             t \in {"createRoom", "joinRoom"},
             c \in {CodeA, CodeB, <<" ", "A", " ">>} }
    \cup { Json([type |-> "message", roomCode |-> CodeA, message |-> m]) :
             m \in Texts }
    \cup { Json([type |-> "message", roomCode |-> CodeB, message |-> JString(Hi)]),
           Json([type |-> "message", roomCode |-> CodeA]),
           Json([type |-> "createRoom"]),
           Json([type |-> "joinRoom", roomCode |-> <<" ", " ">>]),
           Json([type |-> "message", roomCode |-> <<>>, message |-> JString(Hi)]),
           Json([type |-> "leaveRoom", roomCode |-> CodeA]),
           Json([roomCode |-> CodeA]) }

\* valid requests on both room codes, one of them padded with blanks
FramesCore ==
    { Json([type |-> t, roomCode |-> c]) :
        t \in {"createRoom", "joinRoom"}, c \in {CodeA, CodeB} }
    \cup { Json([type |-> "joinRoom", roomCode |-> <<" ", "A", " ">>]) }
    \cup { Json([type |-> "message", roomCode |-> c, message |-> JString(Hi)]) :
             c \in {CodeA, CodeB} }

FramesHeartbeat ==
    { Json([type |-> "createRoom", roomCode |-> CodeA]),
      Json([type |-> "joinRoom", roomCode |-> CodeA]) }

\* creations of both rooms, joins of the first
FramesJanitor ==
    { Json([type |-> "createRoom", roomCode |-> CodeA]),
      Json([type |-> "createRoom", roomCode |-> CodeB]),
      Json([type |-> "joinRoom", roomCode |-> CodeA]) }

\* every kind of client request on one room, creations of and posts to a
\* second one
FramesRegistry ==
    { Json([type |-> "createRoom", roomCode |-> CodeA]),
      Json([type |-> "joinRoom", roomCode |-> CodeA]),
      Json([type |-> "message", roomCode |-> CodeA, message |-> JString(Hi)]),
      Json([type |-> "createRoom", roomCode |-> CodeB]),
      Json([type |-> "message", roomCode |-> CodeB, message |-> JString(Hi)]) }

FramesHistory ==
    { Json([type |-> "createRoom", roomCode |-> CodeA]),
      Json([type |-> "message", roomCode |-> CodeA, message |-> JString(Hi)]) }

Yo == <<"y", "o">>

\* two rooms, joins of the first, two texts
FramesOrder ==
    { Json([type |-> "createRoom", roomCode |-> CodeA]),
      Json([type |-> "createRoom", roomCode |-> CodeB]),
      Json([type |-> "joinRoom", roomCode |-> CodeA]),
      Json([type |-> "message", roomCode |-> CodeA, message |-> JString(Hi)]),
      Json([type |-> "message", roomCode |-> CodeA, message |-> JString(Yo)]),
      Json([type |-> "message", roomCode |-> CodeB, message |-> JString(Hi)]) }

EdgeSockets == {"s1", "s2"}

JanitorSockets == {"s1"}

----------------------------------------------------------------------------
(* Outbound envelopes and delivery *)

NoSent == [s \in Sockets |-> <<>>]

\* socket.send(JSON.stringify(envelope)) on the handler's own socket
Send(out, socket, envelope) == [out EXCEPT ![socket] = Append(@, envelope)]

ErrorEnvelope(text) == [type |-> "error", message |-> text]

\* broadcastToRoom without the readyState test
broadcastToRoomUnchecked(out, room, message, excludeSocket, states) ==
    [s \in Sockets |->
        LET entries == {u \in DOMAIN room.users : room.users[u] = s}
        IN  IF s # excludeSocket
            THEN out[s] \o Str(Cardinality(entries), message)
            ELSE out[s]]

\* One send per entry of room.users whose socket is not the excluded one and
\* is OPEN in `states`, the readyState of every socket at the time of the call.
broadcastToRoom(out, room, message, excludeSocket, states) ==
    [s \in Sockets |->
        LET entries == {u \in DOMAIN room.users : room.users[u] = s}
        IN  IF s # excludeSocket /\ states[s] = "OPEN"
            THEN out[s] \o Str(Cardinality(entries), message)
            ELSE out[s]]

\* the ids of the `message` envelopes among those written to one socket
MessageIds(envelopes) ==
    LET posts == SelectSeq(envelopes, LAMBDA e : e.type = "message")
    IN  [i \in 1..Len(posts) |-> posts[i].id]

\* the inboxes after the writes `out` of one step
Received(out) == [s \in Sockets |-> inbox[s] \o MessageIds(out[s])]

\* validateMessage with length < MAX_MESSAGE_LENGTH
validateMessageExclusive(message) ==
    /\ message.typeof = "string"
    /\ Len(message.value) > 0
    /\ Len(message.value) < MAX_MESSAGE_LENGTH

validateMessage(message) ==
    /\ message.typeof = "string"
    /\ Len(message.value) > 0
    /\ Len(message.value) <= MAX_MESSAGE_LENGTH

\* PushHistory with unshift in place of push: the newest message comes first
PushHistoryNewestFirst(messages, messageInfo) ==
    LET pushed == <<messageInfo>> \o messages
    IN  IF Len(pushed) > MAX_ROOM_HISTORY
        THEN SubSeq(pushed, 1, MAX_ROOM_HISTORY)
        ELSE pushed

\* PushHistory with slice(0, MAX_ROOM_HISTORY): the newest message is dropped
PushHistoryDropsNewest(messages, messageInfo) ==
    LET pushed == Append(messages, messageInfo)
    IN  IF Len(pushed) > MAX_ROOM_HISTORY
        THEN SubSeq(pushed, 1, MAX_ROOM_HISTORY)
        ELSE pushed

\* room.messages.push(messageInfo), then the slice(-MAX_ROOM_HISTORY)
PushHistory(messages, messageInfo) ==
    LET pushed == Append(messages, messageInfo)
    IN  IF Len(pushed) > MAX_ROOM_HISTORY
        THEN SubSeq(pushed, Len(pushed) - MAX_ROOM_HISTORY + 1, Len(pushed))
        ELSE pushed

----------------------------------------------------------------------------
(* The "message" listener.  Each case yields the registry, the bindings,   *)
(* the number of ids drawn and the envelopes written.                      *)

\* Reply that writes the envelope to every open socket
ReplyToEveryone(socket, envelope) ==
    [rooms |-> rooms, userSockets |-> userSockets, uuids |-> uuids,
     sent |-> [s \in Sockets |->
                 IF readyState[s] = "OPEN" THEN <<envelope>> ELSE <<>>]]

Reply(socket, envelope) ==
    [rooms |-> rooms, userSockets |-> userSockets, uuids |-> uuids,
     sent |-> Send(NoSent, socket, envelope)]

\* CaseCreateRoom without the rooms.has(roomCode) test: the room is replaced
CaseCreateRoomOverwrites(socket, roomCode) ==
    LET userId == randomUUID(uuids + 1)
        room == [users |-> (userId :> socket), messages |-> <<>>,
                 createdAt |-> now]
    IN  [rooms |-> MapSet(rooms, roomCode, room),
         userSockets |-> MapSet(userSockets, socket,
                                [roomCode |-> roomCode, userId |-> userId]),
         uuids |-> uuids + 1,
         sent |-> Send(NoSent, socket,
                       [type |-> "roomCreated", roomCode |-> roomCode,
                        userId |-> userId])]

\* CaseCreateRoom that first removes the socket's bound member entry from
\* the room it is bound to
CaseCreateRoomLeavesPrior(socket, roomCode) ==
    IF roomCode \in DOMAIN rooms
    THEN Reply(socket, ErrorEnvelope("Room already exists."))
    ELSE LET userId == randomUUID(uuids + 1)
             room == [users |-> (userId :> socket), messages |-> <<>>,
                      createdAt |-> now]
             prior == IF socket \in DOMAIN userSockets
                         /\ userSockets[socket].roomCode \in DOMAIN rooms
                      THEN {userSockets[socket].roomCode}
                      ELSE {}
             left == [c \in DOMAIN rooms |->
                        IF c \in prior
                        THEN [rooms[c] EXCEPT
                                !.users = MapDelete(@, userSockets[socket].userId)]
                        ELSE rooms[c]]
         IN  [rooms |-> MapSet(left, roomCode, room),
              userSockets |-> MapSet(userSockets, socket,
                                     [roomCode |-> roomCode, userId |-> userId]),
              uuids |-> uuids + 1,
              sent |-> Send(NoSent, socket,
                            [type |-> "roomCreated", roomCode |-> roomCode,
                             userId |-> userId])]

\* CaseCreateRoom without userSockets.set: the creator is a member, unbound
CaseCreateRoomUnbound(socket, roomCode) ==
    IF roomCode \in DOMAIN rooms
    THEN Reply(socket, ErrorEnvelope("Room already exists."))
    ELSE LET userId == randomUUID(uuids + 1)
             room == [users |-> (userId :> socket), messages |-> <<>>,
                      createdAt |-> now]
         IN  [rooms |-> MapSet(rooms, roomCode, room),
              userSockets |-> userSockets,
              uuids |-> uuids + 1,
              sent |-> Send(NoSent, socket,
                            [type |-> "roomCreated", roomCode |-> roomCode,
                             userId |-> userId])]

CaseCreateRoom(socket, roomCode) ==
    IF roomCode \in DOMAIN rooms
    THEN Reply(socket, ErrorEnvelope("Room already exists."))
    ELSE LET userId == randomUUID(uuids + 1)
             room == [users |-> (userId :> socket), messages |-> <<>>,
                      createdAt |-> now]
         IN  [rooms |-> MapSet(rooms, roomCode, room),
              userSockets |-> MapSet(userSockets, socket,
                                     [roomCode |-> roomCode, userId |-> userId]),
              uuids |-> uuids + 1,
              sent |-> Send(NoSent, socket,
                            [type |-> "roomCreated", roomCode |-> roomCode,
                             userId |-> userId])]

\* CaseJoinRoom with userSockets.set ahead of the rooms.get test: a refused
\* join binds the socket
CaseJoinRoomBindsFirst(socket, roomCode) ==
    LET userId == randomUUID(uuids + 1)
        binding == MapSet(userSockets, socket,
                          [roomCode |-> roomCode, userId |-> userId])
    IN  IF roomCode \notin DOMAIN rooms
        THEN [rooms |-> rooms, userSockets |-> binding, uuids |-> uuids + 1,
              sent |-> Send(NoSent, socket, ErrorEnvelope("Room does not exist."))]
        ELSE LET room == [rooms[roomCode] EXCEPT
                            !.users = MapSet(@, userId, socket)]
                 joined == [type |-> "roomJoined", roomCode |-> roomCode,
                            userId |-> userId, messages |-> room.messages,
                            usersOnline |-> Size(room.users)]
                 notice == [type |-> "userJoined",
                            message |-> "A new user has joined the room.",
                            usersOnline |-> Size(room.users)]
             IN  [rooms |-> MapSet(rooms, roomCode, room),
                  userSockets |-> binding,
                  uuids |-> uuids + 1,
                  sent |-> broadcastToRoom(Send(NoSent, socket, joined), room,
                                           notice, socket, readyState)]

\* CaseJoinRoom with the broadcast not excluding the joiner's socket
CaseJoinRoomNotifiesJoiner(socket, roomCode) ==
    IF roomCode \notin DOMAIN rooms
    THEN Reply(socket, ErrorEnvelope("Room does not exist."))
    ELSE LET userId == randomUUID(uuids + 1)
             room == [rooms[roomCode] EXCEPT !.users = MapSet(@, userId, socket)]
             joined == [type |-> "roomJoined", roomCode |-> roomCode,
                        userId |-> userId, messages |-> room.messages,
                        usersOnline |-> Size(room.users)]
             notice == [type |-> "userJoined",
                        message |-> "A new user has joined the room.",
                        usersOnline |-> Size(room.users)]
         IN  [rooms |-> MapSet(rooms, roomCode, room),
              userSockets |-> MapSet(userSockets, socket,
                                     [roomCode |-> roomCode, userId |-> userId]),
              uuids |-> uuids + 1,
              sent |-> broadcastToRoom(Send(NoSent, socket, joined), room, notice,
                                       NoSocket, readyState)]

CaseJoinRoom(socket, roomCode) ==
    IF roomCode \notin DOMAIN rooms
    THEN Reply(socket, ErrorEnvelope("Room does not exist."))
    ELSE LET userId == randomUUID(uuids + 1)
             room == [rooms[roomCode] EXCEPT !.users = MapSet(@, userId, socket)]
             joined == [type |-> "roomJoined", roomCode |-> roomCode,
                        userId |-> userId, messages |-> room.messages,
                        usersOnline |-> Size(room.users)]
             notice == [type |-> "userJoined",
                        message |-> "A new user has joined the room.",
                        usersOnline |-> Size(room.users)]
         IN  [rooms |-> MapSet(rooms, roomCode, room),
              userSockets |-> MapSet(userSockets, socket,
                                     [roomCode |-> roomCode, userId |-> userId]),
              uuids |-> uuids + 1,
              sent |-> broadcastToRoom(Send(NoSent, socket, joined), room, notice,
                                       socket, readyState)]

\* data.message || ""
MessageOrEmpty(data) ==
    IF "message" \in DOMAIN data
       /\ ~(data.message.typeof = "string" /\ data.message.value = <<>>)
       /\ ~(data.message.typeof = "number" /\ data.message.value = 0)
    THEN data.message
    ELSE JString(<<>>)

\* userSockets.get(socket) || { userId: "unknown" }
SenderId(socket) ==
    IF socket \in DOMAIN userSockets THEN userSockets[socket].userId ELSE "unknown"

\* CaseMessage that pushes the message onto the history of every room
CaseMessagePostsEverywhere(socket, roomCode, data) ==
    IF roomCode \notin DOMAIN rooms
    THEN Reply(socket, ErrorEnvelope("Room does not exist."))
    ELSE IF ~validateMessage(MessageOrEmpty(data))
    THEN Reply(socket, ErrorEnvelope("Invalid message format or length."))
    ELSE LET messageInfo == [id |-> randomUUID(uuids + 1),
                             message |-> data.message.value,
                             time |-> now,
                             userId |-> SenderId(socket)]
             room == [rooms[roomCode] EXCEPT
                        !.messages = PushHistory(@, messageInfo)]
         IN  [rooms |-> [c \in DOMAIN rooms |->
                           [rooms[c] EXCEPT
                              !.messages = PushHistory(@, messageInfo)]],
              userSockets |-> userSockets,
              uuids |-> uuids + 1,
              sent |-> broadcastToRoom(NoSent, room,
                                       [type |-> "message"] @@ messageInfo,
                                       NoSocket, readyState)]

CaseMessage(socket, roomCode, data) ==
    IF roomCode \notin DOMAIN rooms
    THEN Reply(socket, ErrorEnvelope("Room does not exist."))
    ELSE IF ~validateMessage(MessageOrEmpty(data))
    THEN Reply(socket, ErrorEnvelope("Invalid message format or length."))
    ELSE LET messageInfo == [id |-> randomUUID(uuids + 1),
                             message |-> data.message.value,
                             time |-> now,
                             userId |-> SenderId(socket)]
             room == [rooms[roomCode] EXCEPT
                        !.messages = PushHistory(@, messageInfo)]
         IN  [rooms |-> MapSet(rooms, roomCode, room),
              userSockets |-> userSockets,
              uuids |-> uuids + 1,
              sent |-> broadcastToRoom(NoSent, room,
                                       [type |-> "message"] @@ messageInfo,
                                       NoSocket, readyState)]

\* data.roomCode?.trim(); undefined and "" are both falsy
RoomCodeOf(data) ==
    IF "roomCode" \in DOMAIN data THEN Trim(data.roomCode) ELSE <<>>

TypeOf(data) == IF "type" \in DOMAIN data THEN data.type ELSE "undefined"

Dispatch(socket, raw) ==
    IF "json" \notin DOMAIN raw
    THEN Reply(socket, ErrorEnvelope("Invalid message format."))
    ELSE LET data == raw.json
             roomCode == RoomCodeOf(data)
         IN  IF roomCode = <<>>
             THEN Reply(socket, ErrorEnvelope("Room code is required."))
             ELSE CASE TypeOf(data) = "createRoom" -> CaseCreateRoom(socket, roomCode)
                    [] TypeOf(data) = "joinRoom" -> CaseJoinRoom(socket, roomCode)
                    [] TypeOf(data) = "message" -> CaseMessage(socket, roomCode, data)
                    [] OTHER -> Reply(socket, ErrorEnvelope("Invalid request type."))

OnMessage(socket, raw, maxUuid) ==
    /\ readyState[socket] = "OPEN"
    /\ LET res == Dispatch(socket, raw)
       IN  /\ res.uuids <= maxUuid
           /\ rooms' = res.rooms
           /\ userSockets' = res.userSockets
           /\ uuids' = res.uuids
           /\ sent' = res.sent
           /\ inbox' = Received(res.sent)
    /\ UNCHANGED <<now, readyState, pingInterval, pingTimeout, cleanupAt, probes,
                   listening, closeRuns, leaves>>

----------------------------------------------------------------------------
(* Connection, heartbeat and close *)

NoProbe == [firstAt |-> {}, pending |-> FALSE, lastPongAt |-> {}]

\* wss.on("connection"): the socket is OPEN and its ping interval is started;
\* pingTimeout is declared and not set
Connect(socket) ==
    /\ listening
    /\ readyState[socket] = "CONNECTING"
    /\ readyState' = [readyState EXCEPT ![socket] = "OPEN"]
    /\ pingInterval' = [pingInterval EXCEPT ![socket] = {now + PING_INTERVAL}]
    /\ sent' = NoSent
    /\ UNCHANGED <<now, rooms, userSockets, uuids, pingTimeout, cleanupAt, probes,
                   listening, closeRuns, leaves, inbox>>

\* the setInterval callback: socket.ping(), which writes nothing once the
\* socket is no longer OPEN
PingTick(socket) ==
    /\ pingInterval[socket] = {now}
    /\ pingInterval' = [pingInterval EXCEPT ![socket] = {now + PING_INTERVAL}]
    /\ probes' = IF readyState[socket] = "OPEN"
                 THEN [probes EXCEPT ![socket].pending = TRUE,
                                     ![socket].firstAt =
                                         IF @ = {} THEN {now} ELSE @]
                 ELSE probes
    /\ sent' = NoSent
    /\ UNCHANGED <<now, readyState, rooms, userSockets, uuids, pingTimeout,
                   cleanupAt, listening, closeRuns, leaves, inbox>>

\* heartbeat with a timeout of PING_INTERVAL, without the 1000 ms of grace
heartbeatWithoutGrace(socket) == [pingTimeout EXCEPT ![socket] = {now + PING_INTERVAL}]

\* clearTimeout(pingTimeout); pingTimeout = setTimeout(..., PING_INTERVAL + 1000)
heartbeat(socket) == [pingTimeout EXCEPT ![socket] = {now + PING_INTERVAL + 1000}]

\* socket.on("pong", heartbeat): the client answers the outstanding ping
Pong(socket) ==
    /\ readyState[socket] = "OPEN"
    /\ probes[socket].pending
    /\ pingTimeout' = heartbeat(socket)
    /\ probes' = [probes EXCEPT ![socket].pending = FALSE,
                                ![socket].lastPongAt = {now}]
    /\ sent' = NoSent
    /\ UNCHANGED <<now, readyState, rooms, userSockets, uuids, pingInterval,
                   cleanupAt, listening, closeRuns, leaves, inbox>>

\* the setTimeout callback: socket.terminate()
PingTimeoutFire(socket) ==
    /\ pingTimeout[socket] = {now}
    /\ pingTimeout' = [pingTimeout EXCEPT ![socket] = {}]
    /\ readyState' = [readyState EXCEPT
                        ![socket] = IF @ = "OPEN" THEN "CLOSING" ELSE @]
    /\ sent' = NoSent
    /\ UNCHANGED <<now, rooms, userSockets, uuids, pingInterval, cleanupAt,
                   probes, listening, closeRuns, leaves, inbox>>

\* the client disconnects (close frame or lost transport)
ClientClose(socket) ==
    /\ readyState[socket] = "OPEN"
    /\ readyState' = [readyState EXCEPT ![socket] = "CLOSING"]
    /\ sent' = NoSent
    /\ UNCHANGED <<now, rooms, userSockets, uuids, pingInterval, pingTimeout,
                   cleanupAt, probes, listening, closeRuns, leaves, inbox>>

\* process.on("SIGTERM"): wss.close() stops accepting connections; whether it
\* also terminates the open sockets depends on the ws release in the build
Sigterm(terminateClients) ==
    /\ listening
    /\ listening' = FALSE
    /\ readyState' = [s \in Sockets |->
                        IF terminateClients /\ readyState[s] = "OPEN"
                        THEN "CLOSING" ELSE readyState[s]]
    /\ sent' = NoSent
    /\ UNCHANGED <<now, rooms, userSockets, uuids, pingInterval, pingTimeout,
                   cleanupAt, probes, closeRuns, leaves, inbox>>

\* CloseResult with rooms.delete(roomCode) once the last member has left
CloseResultDeletesEmptyRoom(socket, states) ==
    IF socket \notin DOMAIN userSockets
    THEN [rooms |-> rooms, userSockets |-> userSockets, sent |-> NoSent,
          left |-> FALSE]
    ELSE LET roomCode == userSockets[socket].roomCode
             userId == userSockets[socket].userId
         IN  IF roomCode \notin DOMAIN rooms
             THEN [rooms |-> rooms, userSockets |-> MapDelete(userSockets, socket),
                   sent |-> NoSent, left |-> FALSE]
             ELSE LET room == [rooms[roomCode] EXCEPT
                                 !.users = MapDelete(@, userId)]
                      notice == [type |-> "userLeft",
                                 message |-> "A user has left the room.",
                                 usersOnline |-> Size(room.users)]
                  IN  [rooms |-> IF Size(room.users) = 0
                                 THEN MapDelete(rooms, roomCode)
                                 ELSE MapSet(rooms, roomCode, room),
                       userSockets |-> MapDelete(userSockets, socket),
                       sent |-> broadcastToRoom(NoSent, room, notice, NoSocket,
                                                states),
                       left |-> TRUE]

\* CloseResult without userSockets.delete(socket): the binding survives
CloseResultKeepsBinding(socket, states) ==
    IF socket \notin DOMAIN userSockets
    THEN [rooms |-> rooms, userSockets |-> userSockets, sent |-> NoSent,
          left |-> FALSE]
    ELSE LET roomCode == userSockets[socket].roomCode
             userId == userSockets[socket].userId
             room == [rooms[roomCode] EXCEPT !.users = MapDelete(@, userId)]
             notice == [type |-> "userLeft",
                        message |-> "A user has left the room.",
                        usersOnline |-> Size(room.users)]
         IN  [rooms |-> MapSet(rooms, roomCode, room),
              userSockets |-> userSockets,
              sent |-> broadcastToRoom(NoSent, room, notice, NoSocket, states),
              left |-> TRUE]

\* The body of the "close" listener after the timers are cleared; `states` is
\* the readyState of every socket while it runs (the closing one is CLOSED).
CloseResult(socket, states) ==
    IF socket \notin DOMAIN userSockets
    THEN [rooms |-> rooms, userSockets |-> userSockets, sent |-> NoSent,
          left |-> FALSE]
    ELSE LET roomCode == userSockets[socket].roomCode
             userId == userSockets[socket].userId
         IN  IF roomCode \notin DOMAIN rooms
             THEN [rooms |-> rooms, userSockets |-> MapDelete(userSockets, socket),
                   sent |-> NoSent, left |-> FALSE]
             ELSE LET room == [rooms[roomCode] EXCEPT
                                 !.users = MapDelete(@, userId)]
                      notice == [type |-> "userLeft",
                                 message |-> "A user has left the room.",
                                 usersOnline |-> Size(room.users)]
                  IN  [rooms |-> MapSet(rooms, roomCode, room),
                       userSockets |-> MapDelete(userSockets, socket),
                       sent |-> broadcastToRoom(NoSent, room, notice, NoSocket,
                                                states),
                       left |-> TRUE]

\* OnClose without clearInterval(pingInterval) and clearTimeout(pingTimeout)
OnCloseKeepsTimers(socket, maxRuns) ==
    /\ readyState[socket] \in {"CLOSING", "CLOSED"}
    /\ closeRuns[socket] < maxRuns
    /\ readyState' = [readyState EXCEPT ![socket] = "CLOSED"]
    /\ LET res == CloseResult(socket, readyState')
       IN  /\ rooms' = res.rooms
           /\ userSockets' = res.userSockets
           /\ sent' = res.sent
           /\ inbox' = Received(res.sent)
           /\ leaves' = [leaves EXCEPT ![socket] = IF res.left THEN @ + 1 ELSE @]
    /\ closeRuns' = [closeRuns EXCEPT ![socket] = @ + 1]
    /\ probes' = [probes EXCEPT ![socket] = NoProbe]
    /\ UNCHANGED <<now, uuids, cleanupAt, listening, pingInterval, pingTimeout>>

\* socket.on("close"): ws emits it once per socket, after the socket became
\* CLOSED; a run beyond the first is a duplicate close event (maxRuns > 1)
OnClose(socket, maxRuns) ==
    /\ readyState[socket] \in {"CLOSING", "CLOSED"}
    /\ closeRuns[socket] < maxRuns
    /\ readyState' = [readyState EXCEPT ![socket] = "CLOSED"]
    /\ pingInterval' = [pingInterval EXCEPT ![socket] = {}]
    /\ pingTimeout' = [pingTimeout EXCEPT ![socket] = {}]
    /\ LET res == CloseResult(socket, readyState')
       IN  /\ rooms' = res.rooms
           /\ userSockets' = res.userSockets
           /\ sent' = res.sent
           /\ inbox' = Received(res.sent)
           /\ leaves' = [leaves EXCEPT ![socket] = IF res.left THEN @ + 1 ELSE @]
    /\ closeRuns' = [closeRuns EXCEPT ![socket] = @ + 1]
    /\ probes' = [probes EXCEPT ![socket] = NoProbe]
    /\ UNCHANGED <<now, uuids, cleanupAt, listening>>

----------------------------------------------------------------------------
(* The janitor *)

\* cleanupOldRooms that counts only the members whose socket is OPEN
cleanupOldRoomsCountsOpen ==
    LET reaped == {roomCode \in DOMAIN rooms :
                     /\ now - rooms[roomCode].createdAt > ROOM_CLEANUP_INTERVAL
                     /\ \A u \in DOMAIN rooms[roomCode].users :
                           readyState[rooms[roomCode].users[u]] # "OPEN"}
    IN  [roomCode \in (DOMAIN rooms) \ reaped |-> rooms[roomCode]]

\* cleanupOldRooms without the room.users.size === 0 test
cleanupOldRoomsIgnoresMembers ==
    LET reaped == {roomCode \in DOMAIN rooms :
                     now - rooms[roomCode].createdAt > ROOM_CLEANUP_INTERVAL}
    IN  [roomCode \in (DOMAIN rooms) \ reaped |-> rooms[roomCode]]

\* cleanupOldRooms with roomAge >= ROOM_CLEANUP_INTERVAL
cleanupOldRoomsInclusive ==
    LET reaped == {roomCode \in DOMAIN rooms :
                     /\ now - rooms[roomCode].createdAt >= ROOM_CLEANUP_INTERVAL
                     /\ Size(rooms[roomCode].users) = 0}
    IN  [roomCode \in (DOMAIN rooms) \ reaped |-> rooms[roomCode]]

cleanupOldRooms ==
    LET reaped == {roomCode \in DOMAIN rooms :
                     /\ now - rooms[roomCode].createdAt > ROOM_CLEANUP_INTERVAL
                     /\ Size(rooms[roomCode].users) = 0}
    IN  [roomCode \in (DOMAIN rooms) \ reaped |-> rooms[roomCode]]

\* setInterval(cleanupOldRooms, ROOM_CLEANUP_INTERVAL)
Cleanup ==
    /\ cleanupAt = now
    /\ rooms' = cleanupOldRooms
    /\ cleanupAt' = now + ROOM_CLEANUP_INTERVAL
    /\ sent' = NoSent
    /\ UNCHANGED <<now, readyState, userSockets, uuids, pingInterval, pingTimeout,
                   probes, listening, closeRuns, leaves, inbox>>

----------------------------------------------------------------------------
(* The clock *)

Deadlines ==
    {cleanupAt} \cup UNION {pingInterval[s] \cup pingTimeout[s] : s \in Sockets}

\* no timer is due, and the clock moves to the next deadline
Advance(horizon) ==
    /\ now \notin Deadlines
    /\ SetMin(Deadlines) <= horizon
    /\ now' = SetMin(Deadlines)
    /\ sent' = NoSent
    /\ UNCHANGED <<readyState, rooms, userSockets, uuids, pingInterval,
                   pingTimeout, cleanupAt, probes, listening, closeRuns, leaves, inbox>>

----------------------------------------------------------------------------
(* Specifications *)

Init ==
    /\ now = 0
    /\ readyState = [s \in Sockets |-> "CONNECTING"]
    /\ rooms = EmptyMap
    /\ userSockets = EmptyMap
    /\ uuids = 0
    /\ pingInterval = [s \in Sockets |-> {}]
    /\ pingTimeout = [s \in Sockets |-> {}]
    /\ cleanupAt = ROOM_CLEANUP_INTERVAL
    /\ probes = [s \in Sockets |-> NoProbe]
    /\ listening = TRUE
    /\ closeRuns = [s \in Sockets |-> 0]
    /\ leaves = [s \in Sockets |-> 0]
    /\ sent = NoSent
    /\ inbox = [s \in Sockets |-> <<>>]

\* Rooms and membership at one instant of the clock: every socket, both room
\* codes, valid posts.
Next ==
    \/ \E s \in Sockets : Connect(s)
    \/ \E s \in Sockets, raw \in FramesCore : OnMessage(s, raw, MaxUuid)
    \/ \E s \in Sockets : ClientClose(s)
    \/ \E s \in Sockets : OnClose(s, MaxCloseRuns)

Spec == Init /\ [][Next]_vars

\* Two sockets with every inbound frame, malformed and invalid ones included,
\* and the shutdown signal.
NextEdge ==
    \/ \E s \in EdgeSockets : Connect(s)
    \/ \E s \in EdgeSockets, raw \in Frames : OnMessage(s, raw, MaxUuidEdge)
    \/ \E s \in EdgeSockets : ClientClose(s)
    \/ \E s \in EdgeSockets : OnClose(s, 1)
    \/ \E terminateClients \in BOOLEAN : Sigterm(terminateClients)

SpecEdge == Init /\ [][NextEdge]_vars

\* Two sockets and one more id, which lets a connection repeat createRoom and
\* joinRoom before another one joins, posts or leaves.
NextRejoin ==
    \/ \E s \in EdgeSockets : Connect(s)
    \/ \E s \in EdgeSockets, raw \in FramesCore : OnMessage(s, raw, MaxUuidRejoin)
    \/ \E s \in EdgeSockets : ClientClose(s)
    \/ \E s \in EdgeSockets : OnClose(s, MaxCloseRuns)

SpecRejoin == Init /\ [][NextRejoin]_vars

\* The heartbeat: the clock runs for MaxNow milliseconds, which is before the
\* first sweep of the janitor.
NextHeartbeat ==
    \/ \E s \in EdgeSockets : Connect(s)
    \/ \E s \in EdgeSockets, raw \in FramesHeartbeat :
          OnMessage(s, raw, MaxUuidHeartbeat)
    \/ \E s \in EdgeSockets : PingTick(s)
    \/ \E s \in EdgeSockets : Pong(s)
    \/ \E s \in EdgeSockets : PingTimeoutFire(s)
    \/ \E s \in EdgeSockets : ClientClose(s)
    \/ \E s \in EdgeSockets : OnClose(s, 1)
    \/ Advance(MaxNow)

SpecHeartbeat == Init /\ [][NextHeartbeat]_vars

\* The janitor: the clock runs past the second sweep.  Clients act (connect,
\* send, disconnect) at the instants of the sweeps, before or after the sweep
\* itself, and answer no ping, which leaves them connected (pingTimeout is
\* set by a pong only); the timers run all the time.
AtSweep == now % ROOM_CLEANUP_INTERVAL = 0

NextJanitor ==
    \/ \E s \in EdgeSockets : AtSweep /\ Connect(s)
    \/ \E s \in EdgeSockets, raw \in FramesJanitor :
          AtSweep /\ OnMessage(s, raw, MaxUuidJanitor)
    \/ \E s \in EdgeSockets : PingTick(s)
    \/ \E s \in EdgeSockets : AtSweep /\ ClientClose(s)
    \/ \E s \in EdgeSockets : OnClose(s, 1)
    \/ Cleanup
    \/ Advance(MaxNowJanitor)

SpecJanitor == Init /\ [][NextJanitor]_vars

\* The history bound: one connection creates a room and posts more than
\* MAX_ROOM_HISTORY messages.
NextHistory ==
    \/ \E s \in JanitorSockets : Connect(s)
    \/ \E s \in JanitorSockets, raw \in FramesHistory :
          OnMessage(s, raw, MaxUuidHistory)
    \/ \E s \in JanitorSockets : ClientClose(s)
    \/ \E s \in JanitorSockets : OnClose(s, 1)

SpecHistory == Init /\ [][NextHistory]_vars

\* The life of a registry entry: one connection creates, joins, posts and
\* disconnects at the instants of the sweeps, while the clock runs past the
\* second sweep.
NextRegistry ==
    \/ \E s \in JanitorSockets : AtSweep /\ Connect(s)
    \/ \E s \in JanitorSockets, raw \in FramesRegistry :
          AtSweep /\ OnMessage(s, raw, MaxUuidRegistry)
    \/ \E s \in JanitorSockets : PingTick(s)
    \/ \E s \in JanitorSockets : AtSweep /\ ClientClose(s)
    \/ \E s \in JanitorSockets : OnClose(s, 1)
    \/ Cleanup
    \/ Advance(MaxNowJanitor)

SpecRegistry == Init /\ [][NextRegistry]_vars

\* The order of messages: two connections, both rooms, several posts.
NextOrder ==
    \/ \E s \in EdgeSockets : Connect(s)
    \/ \E s \in EdgeSockets, raw \in FramesOrder : OnMessage(s, raw, MaxUuidOrder)
    \/ \E s \in EdgeSockets : ClientClose(s)
    \/ \E s \in EdgeSockets : OnClose(s, 1)

SpecOrder == Init /\ [][NextOrder]_vars

----------------------------------------------------------------------------
(* Vocabulary of the properties *)

\* the frame parses to a request of this type with a room code
IsRequest(raw, type) ==
    /\ "json" \in DOMAIN raw
    /\ TypeOf(raw.json) = type
    /\ RoomCodeOf(raw.json) # <<>>

\* the text of a message request is a string of 1..MAX_MESSAGE_LENGTH characters
HasValidText(raw) ==
    /\ "message" \in DOMAIN raw.json
    /\ raw.json.message.typeof = "string"
    /\ Len(raw.json.message.value) \in 1..MAX_MESSAGE_LENGTH

\* the envelopes of one type among those written to a socket
OfType(envelopes, type) ==
    SelectSeq(envelopes, LAMBDA e : e.type = type)

\* the sockets that hold an entry of room.users
MemberSockets(room) == {room.users[u] : u \in DOMAIN room.users}

\* the member ids under which a socket is entered in room.users
MemberIds(room, socket) == {u \in DOMAIN room.users : room.users[u] = socket}

Histories == [c \in DOMAIN rooms |-> rooms[c].messages]

Last(seq) == seq[Len(seq)]

----------------------------------------------------------------------------
(* C1 *)

\* C1: a message request from a connection that holds no binding appends no
\* message to any room's history and delivers no `message` envelope to anyone.
C1_UnboundSenderIsIgnored ==
    [][\A s \in Sockets, raw \in FramesCore :
          ( /\ IsRequest(raw, "message")
            /\ s \notin DOMAIN userSockets
            /\ OnMessage(s, raw, MaxUuid) )
          => ( /\ Histories' = Histories
               /\ \A t \in Sockets : OfType(sent'[t], "message") = <<>> )]_vars

----------------------------------------------------------------------------
(* C2 *)

\* C2: a bound connection that has been probed and has never answered is no
\* longer open once PING_INTERVAL + 1000 ms have passed since its first probe.
C2_SilentPeerIsTerminated ==
    \A s \in Sockets :
        ( /\ s \in DOMAIN userSockets
          /\ readyState[s] = "OPEN"
          /\ probes[s].lastPongAt = {} )
        => \A t \in probes[s].firstAt : now <= t + PING_INTERVAL + 1000

----------------------------------------------------------------------------
(* C3 *)

\* C3: after a successful joinRoom the joiner's roomJoined carries the room's
\* member count, the joiner included, and every other open connection that is
\* a member of the room receives exactly one userJoined with that count.
C3_JoinNotifiesEachMemberOnce ==
    [][\A s \in EdgeSockets, raw \in FramesCore :
          ( /\ IsRequest(raw, "joinRoom")
            /\ RoomCodeOf(raw.json) \in DOMAIN rooms
            /\ OnMessage(s, raw, MaxUuidRejoin) )
          => LET room == rooms'[RoomCodeOf(raw.json)]
                 count == Size(room.users)
             IN  /\ Len(sent'[s]) = 1
                 /\ sent'[s][1].type = "roomJoined"
                 /\ sent'[s][1].usersOnline = count
                 /\ s \in MemberSockets(room)
                 /\ \A t \in MemberSockets(room) \ {s} :
                       readyState[t] = "OPEN"
                       => /\ Len(sent'[t]) = 1
                          /\ sent'[t][1].type = "userJoined"
                          /\ sent'[t][1].usersOnline = count]_vars

----------------------------------------------------------------------------
(* C4 *)

\* C4: createRoom with a code already in the registry answers the requester
\* with the error "Room already exists." and changes neither the registry
\* (members, history, createdAt of every room) nor any binding.
C4_DuplicateCreateIsRejected ==
    [][\A s \in Sockets, raw \in FramesCore :
          ( /\ IsRequest(raw, "createRoom")
            /\ RoomCodeOf(raw.json) \in DOMAIN rooms
            /\ OnMessage(s, raw, MaxUuid) )
          => ( /\ rooms' = rooms
               /\ userSockets' = userSockets
               /\ sent' = Send(NoSent, s, ErrorEnvelope("Room already exists.")) )]_vars

\* a createRoom was just refused while the room's creator is still bound to it
C4_Witness ==
    \E s \in Sockets, t \in Sockets :
        /\ s # t
        /\ sent[s] = <<ErrorEnvelope("Room already exists.")>>
        /\ t \in DOMAIN userSockets
        /\ userSockets[t].roomCode \in DOMAIN rooms

----------------------------------------------------------------------------
(* C5 *)

\* C5: no room's history is longer than MAX_ROOM_HISTORY, and a valid post to
\* a room whose history is at the cap drops the oldest message, keeps the
\* others in order and puts the posted message last.
C5_HistoryIsBoundedFifo ==
    [][ /\ \A c \in DOMAIN rooms' : Len(rooms'[c].messages) <= MAX_ROOM_HISTORY
        /\ \A s \in Sockets, raw \in FramesHistory :
              ( /\ IsRequest(raw, "message")
                /\ HasValidText(raw)
                /\ RoomCodeOf(raw.json) \in DOMAIN rooms
                /\ Len(rooms[RoomCodeOf(raw.json)].messages) = MAX_ROOM_HISTORY
                /\ OnMessage(s, raw, MaxUuidHistory) )
              => LET old == rooms[RoomCodeOf(raw.json)].messages
                     new == rooms'[RoomCodeOf(raw.json)].messages
                 IN  /\ Len(new) = MAX_ROOM_HISTORY
                     /\ SubSeq(new, 1, MAX_ROOM_HISTORY - 1) = Tail(old)
                     /\ Last(new).message = raw.json.message.value
                     /\ \A i \in 1..Len(old) : old[i].id # Last(new).id ]_vars

\* more posts than the cap were made: the first post (the second id drawn)
\* is gone and the latest one is last
C5_Witness ==
    /\ CodeA \in DOMAIN rooms
    /\ Len(rooms[CodeA].messages) = MAX_ROOM_HISTORY
    /\ rooms[CodeA].messages[1].id = randomUUID(3)
    /\ Last(rooms[CodeA].messages).id = randomUUID(MAX_ROOM_HISTORY + 2)

----------------------------------------------------------------------------
(* C6 *)

\* C6: a message request naming an existing room succeeds when its text is a
\* string of 1..MAX_MESSAGE_LENGTH characters: the text is appended to the
\* room's history and delivered to the room's open members.  Otherwise (text
\* missing, empty, too long) the sender alone gets the error envelope, and
\* no history changes.
C6_PostValidatesText ==
    [][\A s \in EdgeSockets, raw \in Frames :
          ( /\ IsRequest(raw, "message")
            /\ RoomCodeOf(raw.json) \in DOMAIN rooms
            /\ OnMessage(s, raw, MaxUuidEdge) )
          => LET code == RoomCodeOf(raw.json)
             IN  IF HasValidText(raw)
                 THEN /\ Len(rooms'[code].messages) = Len(rooms[code].messages) + 1
                      /\ Last(rooms'[code].messages).message = raw.json.message.value
                      /\ \A t \in MemberSockets(rooms[code]) :
                            readyState[t] = "OPEN"
                            => \E i \in 1..Len(sent'[t]) :
                                  /\ sent'[t][i].type = "message"
                                  /\ sent'[t][i].message = raw.json.message.value
                 ELSE /\ rooms' = rooms
                      /\ sent' = Send(NoSent, s,
                            ErrorEnvelope("Invalid message format or length."))]_vars

\* a text of exactly MAX_MESSAGE_LENGTH characters is in a history, and the
\* next post was refused
C6_Witness ==
    /\ \E c \in DOMAIN rooms :
          \E i \in 1..Len(rooms[c].messages) :
             Len(rooms[c].messages[i].message) = MAX_MESSAGE_LENGTH
    /\ \E s \in Sockets :
          sent[s] = <<ErrorEnvelope("Invalid message format or length.")>>

----------------------------------------------------------------------------
(* C7 *)

\* C7: when the close listener runs for a bound connection, the bound member
\* id leaves its room, the binding is removed, and every open connection that
\* is still a member of the room receives exactly one userLeft carrying the
\* member count after the removal; no connection leaves more than once.
C7_CloseLeavesOnce ==
    [][\A s \in EdgeSockets :
          ( /\ s \in DOMAIN userSockets
            /\ OnClose(s, MaxCloseRuns) )
          => LET code == userSockets[s].roomCode
                 room == rooms'[code]
             IN  /\ userSockets[s].userId \notin DOMAIN room.users
                 /\ s \notin DOMAIN userSockets'
                 /\ leaves'[s] = 1
                 /\ \A t \in MemberSockets(room) :
                       readyState'[t] = "OPEN"
                       => sent'[t] = << [type |-> "userLeft",
                                         message |-> "A user has left the room.",
                                         usersOnline |-> Size(room.users)] >>]_vars

----------------------------------------------------------------------------
(* C8 *)

\* C8: a second run of the close listener for the same connection changes no
\* room (no member count drops again), no binding, and sends no userLeft.
C8_SecondCloseIsNoOp ==
    [][\A s \in Sockets :
          ( /\ closeRuns[s] >= 1
            /\ OnClose(s, MaxCloseRuns) )
          => ( /\ rooms' = rooms
               /\ userSockets' = userSockets
               /\ leaves' = leaves
               /\ sent' = NoSent )]_vars

\* the listener ran twice for a connection that had left a room with another
\* open member in it
C8_Witness ==
    \E s \in Sockets :
        /\ closeRuns[s] = 2
        /\ leaves[s] = 1
        /\ \E c \in DOMAIN rooms :
              \E t \in MemberSockets(rooms[c]) : t # s /\ readyState[t] = "OPEN"

----------------------------------------------------------------------------
(* C9 *)

\* C9: a sweep removes every room that has no member and whose age,
\* now - createdAt, is greater than ROOM_CLEANUP_INTERVAL, and keeps,
\* unchanged, every room without members whose age is not greater.
C9_SweepReapsOldEmptyRooms ==
    [][cleanupAt' # cleanupAt
          => \A c \in DOMAIN rooms :
                Size(rooms[c].users) = 0
                => IF now - rooms[c].createdAt > ROOM_CLEANUP_INTERVAL
                   THEN c \notin DOMAIN rooms'
                   ELSE c \in DOMAIN rooms' /\ rooms'[c] = rooms[c]]_vars

\* after the second sweep: both connections left a room; the room created at
\* the start is gone, the empty room created at the first sweep is kept
C9_Witness ==
    /\ cleanupAt = 3 * ROOM_CLEANUP_INTERVAL
    /\ CodeA \notin DOMAIN rooms
    /\ CodeB \in DOMAIN rooms
    /\ Size(rooms[CodeB].users) = 0
    /\ rooms[CodeB].createdAt = ROOM_CLEANUP_INTERVAL
    /\ \A s \in EdgeSockets : leaves[s] = 1

----------------------------------------------------------------------------
(* C10 *)

\* C10: when a member of a room posts a valid text, every open member of the
\* room, the sender included, receives a message envelope with that text, and
\* the userId of the appended message is a member id of the sender in that room.
C10_PostReachesMembersUnderSenderId ==
    [][\A s \in EdgeSockets, raw \in FramesCore :
          ( /\ IsRequest(raw, "message")
            /\ HasValidText(raw)
            /\ RoomCodeOf(raw.json) \in DOMAIN rooms
            /\ s \in MemberSockets(rooms[RoomCodeOf(raw.json)])
            /\ OnMessage(s, raw, MaxUuidRejoin) )
          => LET code == RoomCodeOf(raw.json)
                 posted == Last(rooms'[code].messages)
             IN  /\ \A t \in MemberSockets(rooms[code]) \cup {s} :
                       readyState[t] = "OPEN"
                       => \E i \in 1..Len(sent'[t]) :
                             /\ sent'[t][i].type = "message"
                             /\ sent'[t][i].message = raw.json.message.value
                             /\ sent'[t][i].userId = posted.userId
                 /\ posted.userId \in MemberIds(rooms[code], s)]_vars

----------------------------------------------------------------------------
(* C11 *)

\* the request is one the listener answers with an error for being malformed
\* or for naming a room that is not in the registry
IsRefused(raw) ==
    \/ "json" \notin DOMAIN raw
    \/ RoomCodeOf(raw.json) = <<>>
    \/ TypeOf(raw.json) \notin {"createRoom", "joinRoom", "message"}
    \/ /\ TypeOf(raw.json) \in {"joinRoom", "message"}
       /\ RoomCodeOf(raw.json) \notin DOMAIN rooms

\* C11: a frame that does not parse, carries no room code (missing, empty or
\* blank), has an unknown type, or is a joinRoom/message naming a room that
\* does not exist, changes no room (members, history), no binding and draws
\* no id; the connection that sent it gets exactly one error envelope and no
\* other connection gets anything.
C11_RefusedRequestChangesNothing ==
    [][\A s \in EdgeSockets, raw \in Frames :
          ( /\ IsRefused(raw)
            /\ OnMessage(s, raw, MaxUuidEdge) )
          => ( /\ rooms' = rooms
               /\ userSockets' = userSockets
               /\ uuids' = uuids
               /\ Len(sent'[s]) = 1
               /\ sent'[s][1].type = "error"
               /\ \A t \in Sockets \ {s} : sent'[t] = <<>> )]_vars

\* a connection was just refused while another connection is open and is a
\* bound member of a room
C11_Witness ==
    \E s \in EdgeSockets, t \in EdgeSockets :
        /\ s # t
        /\ Len(sent[s]) = 1
        /\ sent[s][1].type = "error"
        /\ sent[s][1].message \in {"Invalid message format.", "Room code is required.",
                                    "Invalid request type.", "Room does not exist."}
        /\ readyState[t] = "OPEN"
        /\ t \in DOMAIN userSockets
        /\ t \in MemberSockets(rooms[userSockets[t].roomCode])

----------------------------------------------------------------------------
(* C12 *)

\* the positions of an id in a sequence of ids
Positions(ids, id) == {i \in 1..Len(ids) : ids[i] = id}

\* every write of a precedes every write of b
Precedes(ids, a, b) ==
    \A i \in Positions(ids, a), j \in Positions(ids, b) : i < j

\* C12: for any two messages retained in one room's history that a
\* connection has received, the connection received the one that is earlier
\* in the history first; hence any two connections that received both
\* received them in the same relative order, the order of the history.
C12_MembersSeeHistoryOrder ==
    \A c \in DOMAIN rooms :
        LET h == rooms[c].messages
        IN  \A i \in 1..Len(h), j \in 1..Len(h) :
               i < j
               => /\ h[i].id # h[j].id
                  /\ \A s \in EdgeSockets :
                        Precedes(inbox[s], h[i].id, h[j].id)
                  /\ \A s \in EdgeSockets, t \in EdgeSockets :
                        ( /\ Positions(inbox[s], h[i].id) # {}
                          /\ Positions(inbox[s], h[j].id) # {}
                          /\ Positions(inbox[t], h[i].id) # {}
                          /\ Positions(inbox[t], h[j].id) # {} )
                        => /\ ~Precedes(inbox[s], h[j].id, h[i].id)
                           /\ ~Precedes(inbox[t], h[j].id, h[i].id)

\* two members of one room have both received its two messages
C12_Witness ==
    /\ CodeA \in DOMAIN rooms
    /\ Len(rooms[CodeA].messages) = 2
    /\ \A s \in EdgeSockets :
          /\ s \in MemberSockets(rooms[CodeA])
          /\ \A i \in 1..2 : Positions(inbox[s], rooms[CodeA].messages[i].id) # {}

----------------------------------------------------------------------------
(* C13 *)

\* the (roomCode, memberId) pairs userSockets associates with a connection
Bindings(map, socket) ==
    IF socket \in DOMAIN map
    THEN {<<map[socket].roomCode, map[socket].userId>>}
    ELSE {}

\* C13: userSockets associates at most one (roomCode, memberId) pair with a
\* connection, and only with one that is connected and whose close listener
\* has not run; a step that gives a connection a new pair is a successful
\* createRoom or joinRoom of that connection, answered with that pair; and
\* after a run of its close listener a connection has no pair.
C13_OneBindingPerOpenConnection ==
    [][\A s \in Sockets :
          /\ Cardinality(Bindings(userSockets', s)) <= 1
          /\ Bindings(userSockets', s) # {}
                => /\ readyState'[s] \in {"OPEN", "CLOSING"}
                   /\ closeRuns'[s] = 0
          /\ ( /\ Bindings(userSockets', s) # {}
                /\ Bindings(userSockets', s) # Bindings(userSockets, s) )
                => /\ Len(sent'[s]) >= 1
                   /\ sent'[s][1].type \in {"roomCreated", "roomJoined"}
                   /\ Bindings(userSockets', s) =
                         {<<sent'[s][1].roomCode, sent'[s][1].userId>>}
          /\ closeRuns'[s] > closeRuns[s]
                => Bindings(userSockets', s) = {}]_vars

\* one connection is open and bound, another was bound, left its room and
\* has had its close handled
C13_Witness ==
    \E s \in Sockets, t \in Sockets :
        /\ readyState[s] = "OPEN"
        /\ Bindings(userSockets, s) # {}
        /\ closeRuns[t] >= 1
        /\ leaves[t] = 1
        /\ Bindings(userSockets, t) = {}

----------------------------------------------------------------------------
(* C14 *)

\* C14: a room code enters the registry only in a step that answers some
\* connection with roomCreated for that code, and leaves it only in a sweep
\* of the janitor; in particular the close that removes a room's last member
\* keeps the room, with no members, in the registry.
C14_OnlyTheJanitorDeletesRooms ==
    [][ /\ \A c \in (DOMAIN rooms') \ (DOMAIN rooms) :
              \E s \in JanitorSockets :
                 /\ sent'[s] # <<>>
                 /\ sent'[s][1].type = "roomCreated"
                 /\ sent'[s][1].roomCode = c
        /\ \A c \in (DOMAIN rooms) \ (DOMAIN rooms') : cleanupAt' # cleanupAt
        /\ \A s \in JanitorSockets :
              ( /\ s \in DOMAIN userSockets
                /\ closeRuns'[s] > closeRuns[s] )
              => LET c == userSockets[s].roomCode
                 IN  /\ c \in DOMAIN rooms'
                     /\ MemberSockets(rooms[c]) = {s} /\ Size(rooms[c].users) = 1
                           => Size(rooms'[c].users) = 0 ]_vars

\* a room that has lost its only member is still in the registry after a
\* sweep of the janitor has run
C14_Witness ==
    /\ cleanupAt > ROOM_CLEANUP_INTERVAL
    /\ \E c \in DOMAIN rooms : Size(rooms[c].users) = 0
    /\ \E s \in JanitorSockets : leaves[s] = 1

----------------------------------------------------------------------------
(* C15 *)

\* every id in use: member ids, bound ids, message ids
IdsInUse ==
    UNION {DOMAIN rooms[c].users : c \in DOMAIN rooms}
    \cup {userSockets[s].userId : s \in DOMAIN userSockets}
    \cup UNION {{rooms[c].messages[i].id : i \in 1..Len(rooms[c].messages)} :
                  c \in DOMAIN rooms}

\* C15: createRoom with a code that is not in the registry inserts a room
\* whose only member is a member id not in use before, mapped to the
\* requester, and whose history is empty; binds the requester to the code
\* and that id; leaves every other room and binding as it was; and writes
\* roomCreated with the code and the id to the requester and nothing to any
\* other connection.
C15_CreateInsertsRoomWithCreator ==
    [][\A s \in Sockets, raw \in FramesCore :
          ( /\ IsRequest(raw, "createRoom")
            /\ RoomCodeOf(raw.json) \notin DOMAIN rooms
            /\ OnMessage(s, raw, MaxUuid) )
          => LET code == RoomCodeOf(raw.json)
             IN  /\ DOMAIN rooms' = DOMAIN rooms \cup {code}
                 /\ \A c \in DOMAIN rooms : rooms'[c] = rooms[c]
                 /\ Size(rooms'[code].users) = 1
                 /\ rooms'[code].messages = <<>>
                 /\ \E u \in DOMAIN rooms'[code].users :
                       /\ u \notin IdsInUse
                       /\ rooms'[code].users[u] = s
                       /\ Bindings(userSockets', s) = {<<code, u>>}
                       /\ sent'[s] = << [type |-> "roomCreated",
                                         roomCode |-> code, userId |-> u] >>
                 /\ \A t \in Sockets \ {s} :
                       /\ sent'[t] = <<>>
                       /\ Bindings(userSockets', t) = Bindings(userSockets, t)]_vars

\* a connection has just created a room while another connection is open
\* and a bound member of another room
C15_Witness ==
    \E s \in Sockets, t \in Sockets :
        /\ s # t
        /\ Len(sent[s]) = 1
        /\ sent[s][1].type = "roomCreated"
        /\ readyState[t] = "OPEN"
        /\ Bindings(userSockets, t) # {}
        /\ sent[t] = <<>>

----------------------------------------------------------------------------
(* C16 *)

\* some envelope of this type is among those written to the socket
Got(envelopes, type) == OfType(envelopes, type) # <<>>

\* C16: in a step that broadcasts (a successful joinRoom, a valid post to an
\* existing room, the close of a bound connection) every member of the room
\* whose connection is open and is not the excluded one is written the
\* broadcast envelope, whatever the state of the other members; a connection
\* that is not open is written nothing; and nobody is written an error.
C16_BroadcastSkipsClosedPeers ==
    [][ /\ \A s \in EdgeSockets, raw \in FramesCore :
              ( /\ RoomCodeOf(raw.json) \in DOMAIN rooms
                /\ \/ IsRequest(raw, "joinRoom")
                   \/ IsRequest(raw, "message") /\ HasValidText(raw)
                /\ OnMessage(s, raw, MaxUuidRejoin) )
              => LET room == rooms'[RoomCodeOf(raw.json)]
                 IN  /\ \A t \in MemberSockets(room) :
                           readyState[t] = "OPEN"
                           => IF IsRequest(raw, "message")
                              THEN Got(sent'[t], "message")
                              ELSE t # s => Got(sent'[t], "userJoined")
                     /\ \A t \in Sockets :
                           /\ readyState[t] # "OPEN" => sent'[t] = <<>>
                           /\ ~Got(sent'[t], "error")
        /\ \A s \in EdgeSockets :
              ( /\ s \in DOMAIN userSockets
                /\ OnClose(s, MaxCloseRuns) )
              => LET room == rooms'[userSockets[s].roomCode]
                 IN  /\ \A t \in MemberSockets(room) :
                           readyState'[t] = "OPEN" => Got(sent'[t], "userLeft")
                     /\ \A t \in Sockets :
                           /\ readyState'[t] # "OPEN" => sent'[t] = <<>>
                           /\ ~Got(sent'[t], "error") ]_vars

\* a post was just delivered to an open member of a room while another
\* member of the room, whose connection is closing, was written nothing
C16_Witness ==
    \E c \in DOMAIN rooms, s \in EdgeSockets, t \in EdgeSockets :
        /\ {s, t} \subseteq MemberSockets(rooms[c])
        /\ readyState[s] = "OPEN"
        /\ Got(sent[s], "message")
        /\ readyState[t] = "CLOSING"
        /\ sent[t] = <<>>

----------------------------------------------------------------------------
(* C17 *)

\* C17: when the close listener of a connection runs, both its timers are
\* cleared, whichever way the connection closed; and from then on neither
\* timer is set again, no ping is recorded for the connection and its
\* state stays CLOSED: no probe is sent and no termination timeout fires.
C17_CloseStopsTheMonitor ==
    [][\A s \in EdgeSockets :
          closeRuns'[s] >= 1
          => /\ pingInterval'[s] = {}
             /\ pingTimeout'[s] = {}
             /\ readyState'[s] = "CLOSED"
             /\ closeRuns[s] >= 1 => probes'[s] = probes[s]]_vars

\* later than the first termination deadline, one connection has had its
\* close handled and holds no timer, while the other connection is still
\* probed and has a termination timeout pending
C17_Witness ==
    \E s \in EdgeSockets, t \in EdgeSockets :
        /\ closeRuns[s] = 1
        /\ now > PING_INTERVAL + 1000
        /\ pingInterval[s] = {} /\ pingTimeout[s] = {}
        /\ readyState[t] = "OPEN"
        /\ pingTimeout[t] # {}
        /\ probes[t].pending

----------------------------------------------------------------------------
(* C18 *)

\* C18: a joinRoom on an existing room writes to the joiner exactly one
\* envelope, roomJoined, whose messages are the room's history as it is at
\* that moment, in order (empty when nothing was posted); the joiner is
\* written no userJoined for its own join, not even when it already holds
\* an entry in the room.
C18_JoinerGetsHistoryOnly ==
    [][\A s \in EdgeSockets, raw \in FramesCore :
          ( /\ IsRequest(raw, "joinRoom")
            /\ RoomCodeOf(raw.json) \in DOMAIN rooms
            /\ OnMessage(s, raw, MaxUuidRejoin) )
          => /\ Len(sent'[s]) = 1
             /\ sent'[s][1].type = "roomJoined"
             /\ sent'[s][1].messages = rooms[RoomCodeOf(raw.json)].messages
             /\ rooms'[RoomCodeOf(raw.json)].messages
                   = rooms[RoomCodeOf(raw.json)].messages
             /\ ~Got(sent'[s], "userJoined")]_vars

\* a connection has just joined a room with a message in its history
C18_Witness ==
    \E s \in EdgeSockets :
        /\ Len(sent[s]) = 1
        /\ sent[s][1].type = "roomJoined"
        /\ sent[s][1].messages # <<>>
        /\ sent[s][1].messages = rooms[sent[s][1].roomCode].messages

----------------------------------------------------------------------------
(* C19 *)

\* C19: a sweep keeps, unchanged, every room that has a member, whatever its
\* age; and it deletes every room without members whose age since createdAt
\* is greater than ROOM_CLEANUP_INTERVAL, however recently the last member
\* left.
C19_SweepSparesOccupiedRooms ==
    [][cleanupAt' # cleanupAt
          => \A c \in DOMAIN rooms :
                /\ Size(rooms[c].users) >= 1
                      => c \in DOMAIN rooms' /\ rooms'[c] = rooms[c]
                /\ ( /\ Size(rooms[c].users) = 0
                      /\ now - rooms[c].createdAt > ROOM_CLEANUP_INTERVAL )
                      => c \notin DOMAIN rooms']_vars

\* Right after the second sweep.  Room B, created at the start, still has a
\* member and is kept.  Its history holds a post made at the instant of
\* this sweep under a member id that is not of room B: the poster was then
\* bound to room A, the only other room, and has left it since, at this
\* same instant; room A is gone.
C19_Witness ==
    /\ now = 2 * ROOM_CLEANUP_INTERVAL
    /\ cleanupAt = 3 * ROOM_CLEANUP_INTERVAL
    /\ CodeA \notin DOMAIN rooms
    /\ CodeB \in DOMAIN rooms
    /\ rooms[CodeB].createdAt = 0
    /\ Size(rooms[CodeB].users) >= 1
    /\ userSockets = EmptyMap
    /\ \E i \in 1..Len(rooms[CodeB].messages) :
          /\ rooms[CodeB].messages[i].time = now
          /\ rooms[CodeB].messages[i].userId # "unknown"
          /\ rooms[CodeB].messages[i].userId \notin DOMAIN rooms[CodeB].users

----------------------------------------------------------------------------
(* C20 *)

\* C20: a createRoom on an absent code or a joinRoom on an existing room,
\* sent by a connection that is already bound, is answered with roomCreated
\* or roomJoined; the connection's binding becomes the new code and a new
\* member id; the member entry of its earlier binding stays in the room it
\* was bound to, still mapped to the connection; and no userLeft is written
\* to anyone.
C20_RebindKeepsEarlierEntry ==
    [][\A s \in EdgeSockets, raw \in FramesCore :
          ( /\ s \in DOMAIN userSockets
            /\ \/ /\ IsRequest(raw, "createRoom")
                  /\ RoomCodeOf(raw.json) \notin DOMAIN rooms
               \/ /\ IsRequest(raw, "joinRoom")
                  /\ RoomCodeOf(raw.json) \in DOMAIN rooms
            /\ OnMessage(s, raw, MaxUuidRejoin) )
          => LET old == userSockets[s]
             IN  /\ Len(sent'[s]) = 1
                 /\ sent'[s][1].type \in {"roomCreated", "roomJoined"}
                 /\ Bindings(userSockets', s)
                       = {<<RoomCodeOf(raw.json), sent'[s][1].userId>>}
                 /\ sent'[s][1].userId # old.userId
                 /\ old.roomCode \in DOMAIN rooms'
                 /\ old.userId \in DOMAIN rooms'[old.roomCode].users
                 /\ rooms'[old.roomCode].users[old.userId] = s
                 /\ \A t \in Sockets : ~Got(sent'[t], "userLeft")]_vars

\* a connection that was bound to one room has just been bound to another
\* room, and a second connection, open and a member of the first room, has
\* been written nothing
C20_Witness ==
    \E s \in EdgeSockets, t \in EdgeSockets, c \in DOMAIN rooms :
        /\ s # t
        /\ Len(sent[s]) = 1
        /\ sent[s][1].type \in {"roomCreated", "roomJoined"}
        /\ Bindings(userSockets, s) = {<<sent[s][1].roomCode, sent[s][1].userId>>}
        /\ c # sent[s][1].roomCode
        /\ {s, t} \subseteq MemberSockets(rooms[c])
        /\ readyState[t] = "OPEN"
        /\ sent[t] = <<>>

----------------------------------------------------------------------------
(* C21 *)

\* the termination timeout of the socket has fired and its close listener has
\* not run yet
Terminated(s) ==
    /\ readyState[s] = "CLOSING"
    /\ pingTimeout[s] = {}
    /\ probes[s].lastPongAt # {}

\* C21: a connection that has answered a ping is open no later than
\* PING_INTERVAL + 1000 ms after its last pong; the step in which the
\* monitor terminates an open connection happens exactly that long after
\* the last pong and with a ping unanswered, so a connection that answers
\* every ping is not terminated; and the close listener of a terminated,
\* bound connection removes its bound member id and its binding and writes
\* userLeft, with the remaining member count, to the open members of the
\* room, as it does for a client disconnect.
C21_MonitorTerminatesSilentPeer ==
    [][\A s \in EdgeSockets :
          /\ readyState'[s] = "OPEN"
                => \A p \in probes'[s].lastPongAt :
                      now' <= p + PING_INTERVAL + 1000
          /\ ( /\ readyState[s] = "OPEN"
                /\ readyState'[s] = "CLOSING"
                /\ pingTimeout'[s] # pingTimeout[s] )
                => /\ probes[s].pending
                   /\ probes[s].lastPongAt = {now - PING_INTERVAL - 1000}
          /\ ( /\ Terminated(s)
                /\ s \in DOMAIN userSockets
                /\ closeRuns'[s] > closeRuns[s] )
                => LET room == rooms'[userSockets[s].roomCode]
                   IN  /\ userSockets[s].userId \notin DOMAIN room.users
                       /\ Bindings(userSockets', s) = {}
                       /\ leaves'[s] = leaves[s] + 1
                       /\ \A t \in MemberSockets(room) :
                             readyState'[t] = "OPEN"
                             => /\ Got(sent'[t], "userLeft")
                                /\ sent'[t][1].usersOnline = Size(room.users)]_vars

\* one bound connection answered the first ping only and has been
\* terminated, PING_INTERVAL + 1000 ms later; the other member of its room
\* answered the second ping too and is open
C21_Witness ==
    \E s \in EdgeSockets, t \in EdgeSockets :
        /\ Terminated(s)
        /\ s \in DOMAIN userSockets
        /\ probes[s].lastPongAt = {now - PING_INTERVAL - 1000}
        /\ t \in MemberSockets(rooms[userSockets[s].roomCode])
        /\ t # s
        /\ readyState[t] = "OPEN"
        /\ probes[t].lastPongAt = {2 * PING_INTERVAL}

----------------------------------------------------------------------------
(* C22 *)

\* every room but those of `codes` is in the registry after the step as it
\* was before it
OthersUnchanged(codes) ==
    \A c \in (DOMAIN rooms) \ codes : c \in DOMAIN rooms' /\ rooms'[c] = rooms[c]

\* C22: handling a request that names room c changes no room other than c,
\* and a message request changes neither the members nor the createdAt of
\* room c; the close listener of a connection bound to room c changes no
\* room other than c, and that of an unbound connection changes no room.
C22_OtherRoomsAreUntouched ==
    [][ /\ \A s \in EdgeSockets, raw \in FramesCore :
              OnMessage(s, raw, MaxUuidRejoin)
              => /\ OthersUnchanged({RoomCodeOf(raw.json)})
                 /\ ( /\ IsRequest(raw, "message")
                       /\ RoomCodeOf(raw.json) \in DOMAIN rooms )
                       => LET c == RoomCodeOf(raw.json)
                          IN  /\ rooms'[c].users = rooms[c].users
                              /\ rooms'[c].createdAt = rooms[c].createdAt
        /\ \A s \in EdgeSockets :
              OnClose(s, MaxCloseRuns)
              => IF s \in DOMAIN userSockets
                 THEN OthersUnchanged({userSockets[s].roomCode})
                 ELSE OthersUnchanged({}) ]_vars

\* a post has just been delivered in one room while the other room has a
\* member and a message of its own
C22_Witness ==
    \E s \in EdgeSockets, c \in DOMAIN rooms, d \in DOMAIN rooms :
        /\ c # d
        /\ Got(sent[s], "message")
        /\ rooms[c].messages # <<>>
        /\ Last(rooms[c].messages).id = sent[s][1].id
        /\ Size(rooms[d].users) >= 1
        /\ rooms[d].messages = <<>>

----------------------------------------------------------------------------
(* C23 *)

\* C23: a valid message request that names an existing room R, sent by a
\* connection that is bound to another room and holds no member entry in R,
\* appends nothing to the history of R and delivers no message envelope to
\* anyone.
C23_NonMemberCannotPost ==
    [][\A s \in EdgeSockets, raw \in FramesCore :
          ( /\ IsRequest(raw, "message")
            /\ HasValidText(raw)
            /\ RoomCodeOf(raw.json) \in DOMAIN rooms
            /\ s \in DOMAIN userSockets
            /\ userSockets[s].roomCode # RoomCodeOf(raw.json)
            /\ s \notin MemberSockets(rooms[RoomCodeOf(raw.json)])
            /\ OnMessage(s, raw, MaxUuidRejoin) )
          => ( /\ Histories' = Histories
               /\ \A t \in Sockets : ~Got(sent'[t], "message") )]_vars

----------------------------------------------------------------------------
(* C24 *)

\* C24: once the close listener of a connection has run, no room holds a
\* member entry that maps to that connection.
C24_ClosedConnectionIsNoMember ==
    \A s \in EdgeSockets :
        closeRuns[s] >= 1
        => \A c \in DOMAIN rooms : s \notin MemberSockets(rooms[c])

----------------------------------------------------------------------------
(* C25 *)

\* every connection made so far has had its close handled, so that every
\* connection that ever created or joined a room has closed
AllClosed ==
    \A s \in Sockets : readyState[s] = "CONNECTING" \/ closeRuns[s] >= 1

\* C25: a sweep of the janitor that finds a room older than
\* ROOM_CLEANUP_INTERVAL while every connection that ever created or joined
\* it has closed removes the room.  The sweeps are periodic, so this is what
\* makes an abandoned room go away eventually; a room that such a sweep
\* keeps has a member entry that no later step removes.
C25_AbandonedRoomIsReaped ==
    [][\A c \in DOMAIN rooms :
          ( /\ cleanupAt' # cleanupAt
            /\ AllClosed
            /\ now - rooms[c].createdAt > ROOM_CLEANUP_INTERVAL )
          => c \notin DOMAIN rooms']_vars

----------------------------------------------------------------------------
(* C26 *)

\* C26: every binding names a room that is in the registry and a member id
\* that the room's members map holds, mapped to the bound connection; hence
\* the close listener never finds the room of its binding missing.
C26_BindingIsAMemberEntry ==
    \A s \in DOMAIN userSockets :
        /\ userSockets[s].roomCode \in DOMAIN rooms
        /\ userSockets[s].userId \in DOMAIN rooms[userSockets[s].roomCode].users
        /\ rooms[userSockets[s].roomCode].users[userSockets[s].userId] = s

\* after the second sweep a connection is bound to a room twice as old as
\* the retention threshold, while the other connection has left
C26_Witness ==
    \E s \in EdgeSockets, t \in EdgeSockets :
        /\ cleanupAt = 3 * ROOM_CLEANUP_INTERVAL
        /\ s \in DOMAIN userSockets
        /\ rooms[userSockets[s].roomCode].createdAt = 0
        /\ leaves[t] = 1

----------------------------------------------------------------------------
(* C27 *)

\* C27: when a valid message request on an existing room is handled, every
\* open connection that is a member of the room is written exactly one
\* message envelope, whatever createRoom and joinRoom requests the
\* connections sent before.
C27_PostIsDeliveredOnce ==
    [][\A s \in EdgeSockets, raw \in FramesCore :
          ( /\ IsRequest(raw, "message")
            /\ HasValidText(raw)
            /\ RoomCodeOf(raw.json) \in DOMAIN rooms
            /\ OnMessage(s, raw, MaxUuidRejoin) )
          => \A t \in MemberSockets(rooms[RoomCodeOf(raw.json)]) :
                readyState[t] = "OPEN"
                => Len(OfType(sent'[t], "message")) = 1]_vars

====
